---------------------------- MODULE Spec2Model ----------------------------
(***************************************************************************)
(* Token Metadata: the instruction router (processor/mod.rs) with its Lock *)
(* Guard and Classifier, the authorization validator and the freeze/thaw   *)
(* transitioner (utils/programmable_asset.rs).                             *)
(*                                                                         *)
(* Three specifications share the module:                                  *)
(*   Spec          the router over a ledger of two accounts                *)
(*   SpecAuth      auth_rules_validate applied to drawn parameters         *)
(*   SpecTransfer  frozen_transfer, freeze and thaw over a token account   *)
(***************************************************************************)
EXTENDS Naturals, Sequences, FiniteSets, TLC

VARIABLES
    ledger,     \* account storage: address -> [owner, data]
    last,       \* the last routed instruction: input, accounts, result, handler calls
    params,     \* AuthRulesValidateParams of the validation under way
    auth,       \* what that validation did: position, result, payload, oracle calls
    token,      \* the token ledger: holder account state and balances
    ft,         \* the in-flight token instruction: position, snapshot, result
    iter        \* a handler's reading of its accounts: the slice, the iterator, the last call

vars == <<ledger, last, params, auth, token, ft, iter>>

(***************************************************************************)
(* Bounds of the model                                                     *)
(***************************************************************************)
MaxAccounts == 2      \* longest account list handed to process_instruction
MaxDataLen == 3       \* longest account data buffer

(***************************************************************************)
(* Account layout (state module, outside src/): fixed offsets and tags.    *)
(* Data is a sequence of bytes; index i of the code is element i + 1.      *)
(***************************************************************************)
DISCRIMINATOR_INDEX == 0
TOKEN_STATE_INDEX == 2
TOKEN_STANDARD_INDEX == 2      \* abstract layout of Metadata: <<key, flag, token standard>>
FLAG_INDEX == 1
METADATA_LEN == 3

Key_Uninitialized == 0
Key_MetadataV1 == 4
Key_TokenRecord == 11

TokenState_Unlocked == 0
TokenState_Locked == 1

\* Option<TokenStandard> as one byte of the abstract layout
TokenStandard_None == 0
TokenStandard_NonFungible == 1
TokenStandard_ProgrammableNonFungible == 4

Byte == {0, 1, 4, 11}

At(data, i) == data[i + 1]

Engine == "token_metadata"            \* program_id / crate::id()
Owners == {Engine, "other_program"}

Keys == {"account_a", "account_b"}    \* the addresses of the accounts of one asset

RECURSIVE SeqsUpTo(_, _)
SeqsUpTo(S, n) ==
    IF n = 0 THEN {<<>>}
    ELSE LET shorter == SeqsUpTo(S, n - 1)
         IN  shorter \cup {Append(s, x) : s \in {t \in shorter : Len(t) = n - 1}, x \in S}

\* The bytes the guards read (the discriminator, the lock state or token
\* standard) take every value of Byte; the bytes they never read start 0, and
\* only the update handlers write one of them (the flag).
ReadIndexes == {DISCRIMINATOR_INDEX, TOKEN_STATE_INDEX, TOKEN_STANDARD_INDEX}
DataShapes ==
    {d \in SeqsUpTo(Byte, MaxDataLen) :
        \A i \in 0..(Len(d) - 1) : i \notin ReadIndexes => At(d, i) = 0}
Accounts == [owner : Owners, data : DataShapes]
AccountLists == SeqsUpTo(Keys, MaxAccounts)

\* the AccountInfo slice the runtime builds for a list of addresses
AccountInfos(l, keys) ==
    [i \in 1..Len(keys) |-> [key |-> keys[i], owner |-> l[keys[i]].owner, data |-> l[keys[i]].data]]

(***************************************************************************)
(* Results                                                                 *)
(***************************************************************************)
Ok == "Ok"
Panic == "Panic"                       \* the program aborts (index out of bounds, unwrap)
ErrDecode == "Err(BorshIoError)"       \* MetadataInstruction::try_from_slice failed
ErrLockedToken == "Err(LockedToken)"
ErrInstructionNotSupported == "Err(InstructionNotSupported)"
ErrDeserialize == "Err(DataTypeMismatch)"   \* Metadata::from_account_info failed
ErrRemoved == "Err(Removed)"
ErrInvalidInstructionData == "Err(InvalidInstructionData)"
ErrHandler == "Err(NotEnoughAccountKeys)"   \* a handler did not find its account

(***************************************************************************)
(* Lock Guard                                                              *)
(***************************************************************************)
\* is_locked returns a bool or aborts on an out-of-bounds index
RetBool(b) == [panicked |-> FALSE, value |-> b]
RetPanic == [panicked |-> TRUE, value |-> FALSE]

RECURSIVE is_locked(_, _)

\* mutant: the scan stops after the first account
is_locked_first_only(program_id, accounts) ==
    IF accounts = <<>> THEN RetBool(FALSE)
    ELSE LET account_info == Head(accounts)
             data == account_info.data
         IN  IF account_info.owner = program_id /\ Len(data) # 0
             THEN IF Len(data) <= DISCRIMINATOR_INDEX THEN RetPanic
                  ELSE IF At(data, DISCRIMINATOR_INDEX) = Key_TokenRecord
                       THEN IF Len(data) <= TOKEN_STATE_INDEX THEN RetPanic
                            ELSE RetBool(At(data, TOKEN_STATE_INDEX) = TokenState_Locked)
                       ELSE RetBool(FALSE)
             ELSE RetBool(FALSE)

is_locked(program_id, accounts) ==
    IF accounts = <<>> THEN RetBool(FALSE)
    ELSE LET account_info == Head(accounts)
             data == account_info.data
         IN  IF account_info.owner = program_id /\ Len(data) # 0
             THEN IF Len(data) <= DISCRIMINATOR_INDEX THEN RetPanic
                  ELSE IF At(data, DISCRIMINATOR_INDEX) = Key_TokenRecord
                       THEN IF Len(data) <= TOKEN_STATE_INDEX THEN RetPanic
                            ELSE IF At(data, TOKEN_STATE_INDEX) = TokenState_Locked
                                 THEN RetBool(TRUE)
                                 ELSE is_locked(program_id, Tail(accounts))
                       ELSE is_locked(program_id, Tail(accounts))
             ELSE is_locked(program_id, Tail(accounts))

(***************************************************************************)
(* Classifier                                                              *)
(***************************************************************************)
\* Metadata::from_account_info: the record decodes when it has the Asset Record
\* tag, the full length and a token standard byte that names a variant.
Metadata_from_account_info(account_info) ==
    LET data == account_info.data
    IN  IF /\ Len(data) = METADATA_LEN
           /\ At(data, DISCRIMINATOR_INDEX) = Key_MetadataV1
           /\ At(data, TOKEN_STANDARD_INDEX) \in
                  {TokenStandard_None, TokenStandard_NonFungible,
                   TokenStandard_ProgrammableNonFungible}
        THEN [ok |-> TRUE, token_standard |-> At(data, TOKEN_STANDARD_INDEX)]
        ELSE [ok |-> FALSE, token_standard |-> TokenStandard_None]

OkTrue == "Ok(true)"
OkFalse == "Ok(false)"

RECURSIVE has_programmable_metadata(_, _)
RECURSIVE has_programmable_metadata_fail_open(_, _)

\* mutant: a record that fails to decode counts as not programmable
has_programmable_metadata_fail_open(program_id, accounts) ==
    IF accounts = <<>> THEN OkFalse
    ELSE LET account_info == Head(accounts)
             data == account_info.data
             rest == has_programmable_metadata_fail_open(program_id, Tail(accounts))
         IN  IF account_info.owner = program_id /\ Len(data) # 0
             THEN IF Len(data) <= DISCRIMINATOR_INDEX THEN Panic
                  ELSE IF At(data, DISCRIMINATOR_INDEX) = Key_MetadataV1
                       THEN LET metadata == Metadata_from_account_info(account_info)
                            IN  IF metadata.ok /\ metadata.token_standard =
                                                    TokenStandard_ProgrammableNonFungible
                                THEN OkTrue
                                ELSE rest
                       ELSE rest
             ELSE rest

RECURSIVE has_programmable_metadata_any_owner(_, _)

\* mutant: the owner of the account is not checked
has_programmable_metadata_any_owner(program_id, accounts) ==
    IF accounts = <<>> THEN OkFalse
    ELSE LET account_info == Head(accounts)
             data == account_info.data
             rest == has_programmable_metadata_any_owner(program_id, Tail(accounts))
         IN  IF Len(data) # 0
             THEN IF At(data, DISCRIMINATOR_INDEX) = Key_MetadataV1
                  THEN LET metadata == Metadata_from_account_info(account_info)
                       IN  IF ~metadata.ok THEN ErrDeserialize
                           ELSE IF metadata.token_standard =
                                       TokenStandard_ProgrammableNonFungible
                                THEN OkTrue
                                ELSE rest
                  ELSE rest
             ELSE rest

has_programmable_metadata(program_id, accounts) ==
    IF accounts = <<>> THEN OkFalse
    ELSE LET account_info == Head(accounts)
             data == account_info.data
             rest == has_programmable_metadata(program_id, Tail(accounts))
         IN  IF account_info.owner = program_id /\ Len(data) # 0
             THEN IF Len(data) <= DISCRIMINATOR_INDEX THEN Panic
                  ELSE IF At(data, DISCRIMINATOR_INDEX) = Key_MetadataV1
                       THEN LET metadata == Metadata_from_account_info(account_info)
                            IN  IF ~metadata.ok THEN ErrDeserialize
                                ELSE IF metadata.token_standard =
                                            TokenStandard_ProgrammableNonFungible
                                     THEN OkTrue
                                     ELSE rest
                       ELSE rest
             ELSE rest

(***************************************************************************)
(* Instructions                                                            *)
(***************************************************************************)
ModernKinds ==
    {"Burn", "Create", "Mint", "Delegate", "Revoke", "Lock", "Unlock",
     "Migrate", "Transfer", "Update", "Verify"}
LegacyKinds == {"UpdateMetadataAccountV2"}          \* forwarded to a legacy handler
RemovedKinds == {"DeprecatedCreateMasterEdition"}   \* answered Removed
UnlistedKinds == {"UnlistedVariant"}                \* no arm in either match
InstructionKinds == ModernKinds \cup LegacyKinds \cup RemovedKinds \cup UnlistedKinds
Malformed == "<malformed bytes>"
Inputs == InstructionKinds \cup {Malformed}

\* MetadataInstruction::try_from_slice
try_from_slice(input) ==
    IF input \in InstructionKinds
    THEN [ok |-> TRUE, instruction |-> input]
    ELSE [ok |-> FALSE, instruction |-> "none"]

(***************************************************************************)
(* Handlers (burn, metadata, delegate, state, collection and the legacy    *)
(* modules, outside src/): each finds its record among the accounts, and   *)
(* fails without writing when there is none.                               *)
(***************************************************************************)
IsStateRecord(a) ==
    /\ a.owner = Engine
    /\ Len(a.data) > TOKEN_STATE_INDEX
    /\ At(a.data, DISCRIMINATOR_INDEX) = Key_TokenRecord

IsAssetRecord(a) ==
    /\ a.owner = Engine
    /\ Len(a.data) > 0
    /\ At(a.data, DISCRIMINATOR_INDEX) = Key_MetadataV1
    /\ Metadata_from_account_info(a).ok

Range(s) == {s[i] : i \in 1..Len(s)}

SetByte(data, i, b) == [data EXCEPT ![i + 1] = b]

\* state::lock and state::unlock write the lock state of the supplied State Records
WriteTokenState(l, keys, state) ==
    LET targets == {k \in Range(keys) : IsStateRecord(l[k])}
    IN  IF targets = {} THEN [result |-> ErrHandler, ledger |-> l]
        ELSE [result |-> Ok,
              ledger |-> [k \in DOMAIN l |->
                            IF k \in targets
                            THEN [l[k] EXCEPT !.data = SetByte(@, TOKEN_STATE_INDEX, state)]
                            ELSE l[k]]]

\* metadata::update and the legacy update write a field of the supplied Asset Records
WriteMetadata(l, keys) ==
    LET targets == {k \in Range(keys) : IsAssetRecord(l[k])}
    IN  IF targets = {} THEN [result |-> ErrHandler, ledger |-> l]
        ELSE [result |-> Ok,
              ledger |-> [k \in DOMAIN l |->
                            IF k \in targets
                            THEN [l[k] EXCEPT !.data =
                                      SetByte(@, FLAG_INDEX, 1 - At(@, FLAG_INDEX))]
                            ELSE l[k]]]

Handler(kind, l, keys) ==
    CASE kind = "Lock" -> WriteTokenState(l, keys, TokenState_Locked)
      [] kind = "Unlock" -> WriteTokenState(l, keys, TokenState_Unlocked)
      [] kind \in {"Update", "UpdateMetadataAccountV2"} -> WriteMetadata(l, keys)
      [] OTHER -> [result |-> IF keys = <<>> THEN ErrHandler ELSE Ok, ledger |-> l]

(***************************************************************************)
(* Instruction Router                                                      *)
(***************************************************************************)
Outcome(result, calls, l) == [result |-> result, calls |-> calls, ledger |-> l]

process_legacy_instruction(program_id, keys, instruction, l) ==
    IF instruction \in LegacyKinds
    THEN LET h == Handler(instruction, l, keys)
         IN  Outcome(h.result, <<"process_legacy_instruction", instruction>>, h.ledger)
    ELSE IF instruction \in RemovedKinds
    THEN Outcome(ErrRemoved, <<"process_legacy_instruction">>, l)
    ELSE Outcome(ErrInvalidInstructionData, <<"process_legacy_instruction">>, l)

\* mutant: a failure of the Classifier is taken for "not programmable"
process_instruction_forwards_on_error(program_id, keys, input, l) ==
    LET decoded == try_from_slice(input)
        instruction == decoded.instruction
        accounts == AccountInfos(l, keys)
        locked == is_locked(program_id, accounts)
    IN  IF ~decoded.ok THEN Outcome(ErrDecode, <<>>, l)
        ELSE IF locked.panicked THEN Outcome(Panic, <<>>, l)
        ELSE IF locked.value /\ instruction # "Unlock" THEN Outcome(ErrLockedToken, <<>>, l)
        ELSE IF instruction \in ModernKinds
        THEN LET h == Handler(instruction, l, keys)
             IN  Outcome(h.result, <<instruction>>, h.ledger)
        ELSE LET programmable == has_programmable_metadata(program_id, accounts)
             IN  IF programmable = OkTrue
                 THEN Outcome(ErrInstructionNotSupported, <<>>, l)
                 ELSE process_legacy_instruction(program_id, keys, instruction, l)

\* mutant: the Classifier is consulted for every instruction
process_instruction_classifies_all(program_id, keys, input, l) ==
    LET decoded == try_from_slice(input)
        instruction == decoded.instruction
        accounts == AccountInfos(l, keys)
        locked == is_locked(program_id, accounts)
        programmable == has_programmable_metadata(program_id, accounts)
    IN  IF ~decoded.ok THEN Outcome(ErrDecode, <<>>, l)
        ELSE IF locked.panicked THEN Outcome(Panic, <<>>, l)
        ELSE IF locked.value /\ instruction # "Unlock" THEN Outcome(ErrLockedToken, <<>>, l)
        ELSE IF programmable = OkTrue THEN Outcome(ErrInstructionNotSupported, <<>>, l)
        ELSE IF programmable # OkFalse THEN Outcome(programmable, <<>>, l)
        ELSE IF instruction \in ModernKinds
        THEN LET h == Handler(instruction, l, keys)
             IN  Outcome(h.result, <<instruction>>, h.ledger)
        ELSE process_legacy_instruction(program_id, keys, instruction, l)

process_instruction(program_id, keys, input, l) ==
    LET decoded == try_from_slice(input)
        instruction == decoded.instruction
        accounts == AccountInfos(l, keys)
        locked == is_locked(program_id, accounts)
    IN  IF ~decoded.ok THEN Outcome(ErrDecode, <<>>, l)
        ELSE IF locked.panicked THEN Outcome(Panic, <<>>, l)
        ELSE IF locked.value /\ instruction # "Unlock" THEN Outcome(ErrLockedToken, <<>>, l)
        ELSE IF instruction \in ModernKinds
        THEN LET h == Handler(instruction, l, keys)
             IN  Outcome(h.result, <<instruction>>, h.ledger)
        ELSE LET programmable == has_programmable_metadata(program_id, accounts)
             IN  IF programmable = OkFalse
                 THEN process_legacy_instruction(program_id, keys, instruction, l)
                 ELSE IF programmable = OkTrue
                 THEN Outcome(ErrInstructionNotSupported, <<>>, l)
                 ELSE Outcome(programmable, <<>>, l)

(***************************************************************************)
(* The router as a state machine                                           *)
(***************************************************************************)
NoInstruction == [input |-> "none", keys |-> <<>>, before |-> <<>>,
                  result |-> "none", calls |-> <<>>]

NoParams == [none |-> TRUE]
NoAuth == [pc |-> "none"]
NoToken == [source_state |-> "none"]
NoFt == [pc |-> "none"]
NoIter == [op |-> "none"]

InitRouter ==
    /\ ledger \in [Keys -> Accounts]
    /\ last = NoInstruction
    /\ params = NoParams
    /\ auth = NoAuth
    /\ token = NoToken
    /\ ft = NoFt
    /\ iter = NoIter

\* one instruction, from entry to its result; a failed instruction writes nothing
Route ==
    /\ last = NoInstruction
    /\ \E input \in Inputs, keys \in AccountLists :
        LET r == process_instruction(Engine, keys, input, ledger)
        IN  /\ ledger' = r.ledger
            /\ last' = [input |-> input, keys |-> keys, before |-> ledger,
                        result |-> r.result, calls |-> r.calls]
            /\ UNCHANGED <<params, auth, token, ft, iter>>

\* the instruction boundary: the result is returned and the instruction's
\* context dropped; the ledger keeps what the instruction wrote
Return ==
    /\ last # NoInstruction
    /\ last' = NoInstruction
    /\ UNCHANGED <<ledger, params, auth, token, ft, iter>>

Next == Route \/ Return

Spec == InitRouter /\ [][Next]_vars

(***************************************************************************)
(* The router on three accounts of the engine that carry a record tag (or  *)
(* are empty), supplied in every order                                     *)
(***************************************************************************)
TaggedKeys == Keys \cup {"account_c"}
TaggedShapes ==
    {d \in DataShapes :
        d # <<>> => At(d, DISCRIMINATOR_INDEX) \in {Key_MetadataV1, Key_TokenRecord}}
TaggedAccounts == [owner : {Engine}, data : TaggedShapes]
AccountOrders ==
    {keys \in [1..Cardinality(TaggedKeys) -> TaggedKeys] :
        \A i, j \in DOMAIN keys : keys[i] = keys[j] => i = j}

InitOrder ==
    /\ ledger \in [TaggedKeys -> TaggedAccounts]
    /\ last = NoInstruction
    /\ params = NoParams
    /\ auth = NoAuth
    /\ token = NoToken
    /\ ft = NoFt
    /\ iter = NoIter

RouteOrder ==
    /\ last = NoInstruction
    /\ \E input \in Inputs, keys \in AccountOrders :
        LET r == process_instruction(Engine, keys, input, ledger)
        IN  /\ ledger' = r.ledger
            /\ last' = [input |-> input, keys |-> keys, before |-> ledger,
                        result |-> r.result, calls |-> r.calls]
            /\ UNCHANGED <<params, auth, token, ft, iter>>

NextOrder == RouteOrder \/ Return

SpecOrder == InitOrder /\ [][NextOrder]_vars

(***************************************************************************)
(* Policy Oracle Client                                                    *)
(***************************************************************************)
MaxAmount == 1        \* largest amount of an operation

None == [some |-> FALSE]
Some(x) == [some |-> TRUE, value |-> x]

Number(n) == [kind |-> "Number", v |-> n]
Pubkey(k) == [kind |-> "Pubkey", v |-> k]

ErrInvalidAuthorizationRules == "Err(InvalidAuthorizationRules)"
ErrInvalidOperation == "Err(InvalidOperation)"
OracleErrors == {"Err(oracle: rule failed)", "Err(oracle: call failed)"}
OracleResponses == {Ok} \cup OracleErrors

RuleSets == {"rule_set_A", "rule_set_B"}
Operations == {"Transfer", "Delegate", "Update"}
Amounts == 0..MaxAmount

\* Payload: a map from key to value; insert replaces the value of a key
EmptyPayload == <<>>
Insert(payload, key, value) ==
    [k \in DOMAIN payload \cup {key} |-> IF k = key THEN value ELSE payload[k]]

\* what a caller may put in its payload for each key
CallerFacts == [Amount |-> Number(MaxAmount + 1), Target |-> Pubkey("callers_target"),
                Authority |-> Pubkey("callers_authority"), Holder |-> Pubkey("holder")]
CallerPayloads == {[k \in ks |-> CallerFacts[k]] : ks \in SUBSET DOMAIN CallerFacts}

OptionOf(S) == {None} \cup {Some(x) : x \in S}

AuthRulesValidateParams ==
    [mint_info : {"mint"},
     target_info : OptionOf({"target"}),
     authority_info : OptionOf({"authority"}),
     owner_info : OptionOf({"holder"}),
     programmable_config : OptionOf([rule_set : RuleSets]),
     amount : Amounts,
     auth_data : OptionOf(CallerPayloads),
     auth_rules_info : OptionOf(RuleSets),
     operation : Operations]

\* assert_valid_authorization: the rule set account is present and is the one
\* the Asset Record names
assert_valid_authorization(auth_rules_info, config) ==
    IF auth_rules_info.some /\ auth_rules_info.value = config.rule_set
    THEN Ok
    ELSE ErrInvalidAuthorizationRules

\* what a validation did: its result, whether it reached the building of the
\* payload, and its calls to the oracle
Validation(result, built, calls) == [result |-> result, built |-> built, calls |-> calls]

\* mutant: a failure of the cross-program call is reported as InvalidAuthorizationRules
validate_maps_call_error(ruleset, operation, mint_info, additional_rule_accounts, auth_data, builds, oracle) ==
    IF ~builds THEN [result |-> ErrInvalidAuthorizationRules, calls |-> <<>>]
    ELSE [result |-> IF oracle = Ok THEN Ok ELSE ErrInvalidAuthorizationRules,
          calls |-> <<[rule_set_pda |-> ruleset, mint |-> mint_info,
                       additional_rule_accounts |-> additional_rule_accounts,
                       operation |-> operation, payload |-> auth_data,
                       update_rule_state |-> FALSE]>>]

\* validate: build the oracle's instruction (builds: whether the builder accepts
\* it) and invoke it (oracle: what the call returns)
validate(ruleset, operation, mint_info, additional_rule_accounts, auth_data, builds, oracle) ==
    IF ~builds THEN [result |-> ErrInvalidAuthorizationRules, calls |-> <<>>]
    ELSE [result |-> oracle,
          calls |-> <<[rule_set_pda |-> ruleset, mint |-> mint_info,
                       additional_rule_accounts |-> additional_rule_accounts,
                       operation |-> operation, payload |-> auth_data,
                       update_rule_state |-> FALSE]>>]

\* the accounts that are present, in the order target, authority, owner
AdditionalRuleAccounts(target_info, authority_info, owner_info) ==
    (IF target_info.some THEN <<target_info.value>> ELSE <<>>)
    \o (IF authority_info.some THEN <<authority_info.value>> ELSE <<>>)
    \o (IF owner_info.some THEN <<owner_info.value>> ELSE <<>>)

\* mutant: the validation starts from an empty payload
StartPayload_always_empty(auth_data) == EmptyPayload

\* the payload the validation starts from
StartPayload(auth_data) == IF auth_data.some THEN auth_data.value ELSE EmptyPayload

\* mutant: the facts of the caller's payload are kept where it has them
TransferPayload_keeps_callers(payload, amount, target_key, authority_key) ==
    LET put(p, k, v) == IF k \in DOMAIN p THEN p ELSE Insert(p, k, v)
    IN  put(put(put(payload, "Amount", Number(amount)), "Target", Pubkey(target_key)),
            "Authority", Pubkey(authority_key))

\* the three inserts of a Transfer
TransferPayload(payload, amount, target_key, authority_key) ==
    Insert(Insert(Insert(payload, "Amount", Number(amount)),
                  "Target", Pubkey(target_key)),
           "Authority", Pubkey(authority_key))

\* mutant: a kind other than Transfer is validated with the payload as it is
OperationPayload_any_kind(operation, payload, amount, target_info, authority_info) ==
    IF operation = "Transfer" /\ (~target_info.some \/ ~authority_info.some)
    THEN [result |-> ErrInvalidOperation, payload |-> payload]
    ELSE IF operation = "Transfer"
    THEN [result |-> Ok,
          payload |-> TransferPayload(payload, amount, target_info.value,
                                      authority_info.value)]
    ELSE [result |-> Ok, payload |-> payload]

\* the match on the operation: the payload to validate, or InvalidOperation
OperationPayload(operation, payload, amount, target_info, authority_info) ==
    IF operation = "Transfer"
    THEN IF ~target_info.some THEN [result |-> ErrInvalidOperation, payload |-> payload]
         ELSE IF ~authority_info.some
         THEN [result |-> ErrInvalidOperation, payload |-> payload]
         ELSE [result |-> Ok,
               payload |-> TransferPayload(payload, amount, target_info.value,
                                           authority_info.value)]
    ELSE [result |-> ErrInvalidOperation, payload |-> payload]

\* mutant: the result of validate is dropped
AfterValidate_drops_result(v) == Validation(Ok, TRUE, v.calls)

\* validate(..)?; Ok(())
AfterValidate(v) == Validation(v.result, TRUE, v.calls)

\* mutant: the operation is matched before the rule set is checked
ValidateWithConfig_operation_first(p, config, builds, oracle) ==
    LET op == OperationPayload(p.operation, StartPayload(p.auth_data), p.amount,
                               p.target_info, p.authority_info)
        checked == assert_valid_authorization(p.auth_rules_info, config)
    IN  IF op.result # Ok THEN Validation(op.result, TRUE, <<>>)
        ELSE IF checked # Ok THEN Validation(checked, TRUE, <<>>)
        ELSE AfterValidate(validate(p.auth_rules_info.value, p.operation, p.mint_info,
                                    AdditionalRuleAccounts(p.target_info, p.authority_info,
                                                           p.owner_info),
                                    op.payload, builds, oracle))

\* the body of `if let Some(ref config) = programmable_config`
ValidateWithConfig(p, config, builds, oracle) ==
    LET checked == assert_valid_authorization(p.auth_rules_info, config)
    IN  IF checked # Ok THEN Validation(checked, FALSE, <<>>)
        ELSE IF ~p.auth_rules_info.some THEN Validation(Panic, FALSE, <<>>)
        ELSE LET auth_pda == p.auth_rules_info.value
                 additional_rule_accounts ==
                     AdditionalRuleAccounts(p.target_info, p.authority_info, p.owner_info)
                 op == OperationPayload(p.operation, StartPayload(p.auth_data), p.amount,
                                        p.target_info, p.authority_info)
             IN  IF op.result # Ok THEN Validation(op.result, TRUE, <<>>)
                 ELSE AfterValidate(validate(auth_pda, p.operation, p.mint_info,
                                             additional_rule_accounts, op.payload,
                                             builds, oracle))

\* mutant: an asset without a programmable configuration is refused
auth_rules_validate_requires_config(p, builds, oracle) ==
    IF p.programmable_config.some
    THEN ValidateWithConfig(p, p.programmable_config.value, builds, oracle)
    ELSE Validation(ErrInvalidAuthorizationRules, FALSE, <<>>)

auth_rules_validate(p, builds, oracle) ==
    IF p.programmable_config.some
    THEN ValidateWithConfig(p, p.programmable_config.value, builds, oracle)
    ELSE Validation(Ok, FALSE, <<>>)

(***************************************************************************)
(* The validation as a state machine: the parameters are drawn, then       *)
(* validated; the caller goes on to its writes only after success.         *)
(***************************************************************************)
NotValidated == [pc |-> "start"]

InitAuth ==
    /\ params \in AuthRulesValidateParams
    /\ auth = NotValidated
    /\ ledger = [k \in Keys |-> [owner |-> Engine, data |-> <<>>]]
    /\ last = NoInstruction
    /\ token = NoToken
    /\ ft = NoFt
    /\ iter = NoIter

AuthRulesValidate ==
    /\ auth.pc = "start"
    /\ \E builds \in BOOLEAN, oracle \in OracleResponses :
        LET v == auth_rules_validate(params, builds, oracle)
        IN  auth' = [pc |-> "returned", result |-> v.result, built |-> v.built,
                     calls |-> v.calls, builds |-> builds, oracle |-> oracle]
    /\ UNCHANGED <<params, ledger, last, token, ft, iter>>

\* the calling handler: `auth_rules_validate(params)?;` and then its writes
Proceed ==
    /\ auth.pc = "returned"
    /\ auth.result = Ok
    /\ auth' = [auth EXCEPT !.pc = "mutated"]
    /\ UNCHANGED <<params, ledger, last, token, ft, iter>>

NextAuth == AuthRulesValidate \/ Proceed

SpecAuth == InitAuth /\ [][NextAuth]_vars

(***************************************************************************)
(* Freeze/Thaw Transitioner                                                *)
(***************************************************************************)
MaxBalance == 2       \* tokens the source holder account starts with, at most
MaxInstructions == 3  \* token instructions in one behaviour

Held == "Held"                 \* the holder account is frozen
Spendable == "Spendable"       \* the holder account is thawed

ErrMissingEditionAccount == "Err(MissingEditionAccount)"
ErrDerivedKeyInvalid == "Err(DerivedKeyInvalid)"
ErrTokenProgram == "Err(token program)"

Mint == "mint"
\* the address derived from (PREFIX, program id, mint, EDITION)
EditionPda(mint) == <<"metadata", Engine, mint, "edition">>
EditionAccounts == {EditionPda(Mint), <<"another account">>}

\* assert_derivation: the account's address is the derived one
assert_derivation(program_id, edition, mint) ==
    IF edition = EditionPda(mint) THEN Ok ELSE ErrDerivedKeyInvalid

\* the token ledger's primitives; accepts: whether the token program accepts
\* the call's accounts and signer
ThawAccount(t, accepts) ==
    IF accepts /\ t.source_state = Held
    THEN [result |-> Ok, token |-> [t EXCEPT !.source_state = Spendable]]
    ELSE [result |-> ErrTokenProgram, token |-> t]

FreezeAccount(t, accepts) ==
    IF accepts /\ t.source_state = Spendable
    THEN [result |-> Ok, token |-> [t EXCEPT !.source_state = Held]]
    ELSE [result |-> ErrTokenProgram, token |-> t]

spl_token_transfer(t, amount, accepts) ==
    IF accepts /\ t.source_state = Spendable /\ t.source_balance >= amount
    THEN [result |-> Ok,
          token |-> [t EXCEPT !.source_balance = @ - amount,
                              !.destination_balance = @ + amount]]
    ELSE [result |-> ErrTokenProgram, token |-> t]

\* a call of the token program, as recorded for the instruction that made it
TokenCall(op, account, mint, signer, r) ==
    [op |-> op, account |-> account, mint |-> mint, signer |-> signer,
     ok |-> (r.result = Ok)]

Source == "source"             \* params.source, the holder account

\* the outcome of a step that made no call
NoCall(result, t) == [result |-> result, token |-> t, calls |-> <<>>]

\* the outcome of a step that made one call, whose result is the step's result
Called(op, mint, edition, r) ==
    [result |-> r.result, token |-> r.token,
     calls |-> <<TokenCall(op, Source, mint, edition, r)>>]

\* mutant: freeze reports success without the call to the token program
freeze_without_call(mint, t, edition, accepts) ==
    LET derived == assert_derivation(Engine, edition, mint)
    IN  IF derived # Ok THEN NoCall(derived, t) ELSE NoCall(Ok, t)

\* mutant: freeze refuses an account that is already Held, without a call
freeze_checks_state(mint, t, edition, accepts) ==
    LET derived == assert_derivation(Engine, edition, mint)
    IN  IF derived # Ok THEN NoCall(derived, t)
        ELSE IF t.source_state = Held THEN NoCall("Err(already frozen)", t)
        ELSE Called("freeze", mint, edition, FreezeAccount(t, accepts))

freeze(mint, t, edition, accepts) ==
    LET derived == assert_derivation(Engine, edition, mint)
    IN  IF derived # Ok THEN NoCall(derived, t)
        ELSE Called("freeze", mint, edition, FreezeAccount(t, accepts))

\* mutant: thaw reports success without the call to the token program
thaw_without_call(mint, t, edition, accepts) ==
    LET derived == assert_derivation(Engine, edition, mint)
    IN  IF derived # Ok THEN NoCall(derived, t) ELSE NoCall(Ok, t)

\* mutant: thaw calls the token program without the derivation check
thaw_unchecked(mint, t, edition, accepts) ==
    Called("thaw", mint, edition, ThawAccount(t, accepts))

thaw(mint, t, edition, accepts) ==
    LET derived == assert_derivation(Engine, edition, mint)
    IN  IF derived # Ok THEN NoCall(derived, t)
        ELSE Called("thaw", mint, edition, ThawAccount(t, accepts))

\* mutant: the result of the transfer is dropped
unwrap_ignores(r) == Ok

\* Result::unwrap: a failure aborts the program
unwrap(r) == IF r.result # Ok THEN Panic ELSE Ok

(***************************************************************************)
(* The transitioner as a state machine: one step to each call of the token *)
(* program. ft holds the position in the instruction and, for the current  *)
(* or the last instruction, its kind, inputs, calls and the token ledger   *)
(* at its start. An instruction that fails is undone as a whole by the     *)
(* host ledger: the token ledger is put back to what it was at its start.  *)
(***************************************************************************)
Instruction(kind, snapshot, amount, edition_opt_info) ==
    [kind |-> kind, snapshot |-> snapshot, amount |-> amount,
     edition |-> edition_opt_info]

\* at an instruction boundary, after instruction i returned result
Idle(result, completed, start, i, calls) ==
    [pc |-> "idle", result |-> result, completed |-> completed, start |-> start,
     kind |-> i.kind, snapshot |-> i.snapshot, amount |-> i.amount,
     edition |-> i.edition, calls |-> calls]

\* inside frozen_transfer
InFlight(pc, f, calls) == [f EXCEPT !.pc = pc, !.result = "none", !.calls = calls]

InitTransfer ==
    /\ token \in [source_state : {Held, Spendable}, source_balance : 0..MaxBalance,
                   destination_balance : {0}]
    /\ ft = Idle("none", 0, token.source_state, Instruction("none", token, 0, None), <<>>)
    /\ ledger = [k \in Keys |-> [owner |-> Engine, data |-> <<>>]]
    /\ last = NoInstruction
    /\ params = NoParams
    /\ auth = NoAuth
    /\ iter = NoIter

\* the instruction fails: its writes are undone
Abort(result, i, calls) ==
    /\ token' = i.snapshot
    /\ ft' = Idle(result, ft.completed + 1, ft.start, i, calls)

\* the instruction succeeds: its writes are kept
Commit(t, i, calls) ==
    /\ token' = t
    /\ ft' = Idle(Ok, ft.completed + 1, ft.start, i, calls)

CurrentInstruction == Instruction(ft.kind, ft.snapshot, ft.amount, ft.edition)

\* entry, the edition check and the thaw
FrozenTransferThaw ==
    /\ ft.pc = "idle"
    /\ ft.completed < MaxInstructions
    /\ \E amount \in Amounts, edition_opt_info \in OptionOf(EditionAccounts),
          accepts \in BOOLEAN :
        LET i == Instruction("frozen_transfer", token, amount, edition_opt_info)
        IN  IF ~edition_opt_info.some
            THEN Abort(ErrMissingEditionAccount, i, <<>>)
            ELSE LET thawed == thaw(Mint, token, edition_opt_info.value, accepts)
                 IN  IF thawed.result # Ok
                     THEN Abort(thawed.result, i, thawed.calls)
                     ELSE /\ token' = thawed.token
                          /\ ft' = InFlight("thawed",
                                            Idle("none", ft.completed, ft.start, i, <<>>),
                                            thawed.calls)
    /\ UNCHANGED <<ledger, last, params, auth, iter>>

\* the underlying transfer, unwrapped
FrozenTransferTransfer ==
    /\ ft.pc = "thawed"
    /\ \E accepts \in BOOLEAN :
        LET moved == spl_token_transfer(token, ft.amount, accepts)
            calls == Append(ft.calls, TokenCall("transfer", Source, Mint, "authority", moved))
        IN  IF unwrap(moved) # Ok
            THEN Abort(Panic, CurrentInstruction, calls)
            ELSE /\ token' = moved.token
                 /\ ft' = InFlight("transferred", ft, calls)
    /\ UNCHANGED <<ledger, last, params, auth, iter>>

\* the freeze and the return
FrozenTransferFreeze ==
    /\ ft.pc = "transferred"
    /\ \E accepts \in BOOLEAN :
        LET frozen == freeze(Mint, token, ft.edition.value, accepts)
            calls == ft.calls \o frozen.calls
        IN  IF frozen.result # Ok
            THEN Abort(frozen.result, CurrentInstruction, calls)
            ELSE Commit(frozen.token, CurrentInstruction, calls)
    /\ UNCHANGED <<ledger, last, params, auth, iter>>

NextTransfer == FrozenTransferThaw \/ FrozenTransferTransfer \/ FrozenTransferFreeze

SpecTransfer == InitTransfer /\ [][NextTransfer]_vars

(***************************************************************************)
(* freeze and thaw called on their own, by a handler that does nothing     *)
(* else to the token ledger, next to frozen_transfer                       *)
(***************************************************************************)
Freeze ==
    /\ ft.pc = "idle"
    /\ ft.completed < MaxInstructions
    /\ \E edition \in EditionAccounts, accepts \in BOOLEAN :
        LET i == Instruction("freeze", token, 0, Some(edition))
            frozen == freeze(Mint, token, edition, accepts)
        IN  IF frozen.result # Ok
            THEN Abort(frozen.result, i, frozen.calls)
            ELSE Commit(frozen.token, i, frozen.calls)
    /\ UNCHANGED <<ledger, last, params, auth, iter>>

Thaw ==
    /\ ft.pc = "idle"
    /\ ft.completed < MaxInstructions
    /\ \E edition \in EditionAccounts, accepts \in BOOLEAN :
        LET i == Instruction("thaw", token, 0, Some(edition))
            thawed == thaw(Mint, token, edition, accepts)
        IN  IF thawed.result # Ok
            THEN Abort(thawed.result, i, thawed.calls)
            ELSE Commit(thawed.token, i, thawed.calls)
    /\ UNCHANGED <<ledger, last, params, auth, iter>>

NextTransitioner == NextTransfer \/ Freeze \/ Thaw

SpecTransitioner == InitTransfer /\ [][NextTransitioner]_vars

(***************************************************************************)
(* Positional optional accounts                                            *)
(***************************************************************************)
MaxSlots == 3         \* longest account slice a handler reads its accounts from

ErrNotEnoughAccountKeys == "Err(NotEnoughAccountKeys)"

\* the keys of the accounts of a slice: crate::id() stands for an account not set
SlotKeys == {Engine} \cup Keys
Slices == SeqsUpTo([key : SlotKeys], MaxSlots)

cmp_pubkeys(a, b) == a = b

\* Result<T, ProgramError>
Found(value) == [err |-> "none", value |-> value]
Failed(err) == [err |-> err, value |-> None]

\* mutant: an account that is not set is reported without being consumed
next_optional_account_info_keeps_absent(accounts, pos) ==
    IF pos >= Len(accounts)
    THEN [result |-> Failed(ErrNotEnoughAccountKeys), pos |-> pos]
    ELSE IF cmp_pubkeys(accounts[pos + 1].key, Engine)
    THEN [result |-> Found(None), pos |-> pos]
    ELSE [result |-> Found(Some(accounts[pos + 1])), pos |-> pos + 1]

\* next_optional_account_info on an iterator over accounts that has yielded
\* pos of them: the result and the iterator after the call
next_optional_account_info(accounts, pos) ==
    IF pos >= Len(accounts)
    THEN [result |-> Failed(ErrNotEnoughAccountKeys), pos |-> pos]
    ELSE LET account_info == accounts[pos + 1]
         IN  [result |-> Found(IF cmp_pubkeys(account_info.key, Engine)
                               THEN None
                               ELSE Some(account_info)),
              pos |-> pos + 1]

try_get_optional_account_info(accounts, index) ==
    IF index < Len(accounts)
    THEN Found(IF cmp_pubkeys(accounts[index + 1].key, Engine)
               THEN None
               ELSE Some(accounts[index + 1]))
    ELSE Failed(ErrNotEnoughAccountKeys)

try_get_account_info(accounts, index) ==
    LET account_info == try_get_optional_account_info(accounts, index)
    IN  IF account_info.err # "none" THEN account_info
        ELSE IF account_info.value.some THEN Found(account_info.value.value)
        ELSE Failed(ErrNotEnoughAccountKeys)

\* a handler reads its accounts: by the iterator, in order, or by index
Reading(accounts, pos, yielded, op, index, from, result) ==
    [accounts |-> accounts, pos |-> pos, yielded |-> yielded, op |-> op,
     index |-> index, from |-> from, result |-> result]

InitAccounts ==
    /\ iter \in {Reading(accounts, 0, 0, "start", 0, 0, Failed("none")) :
                    accounts \in Slices}
    /\ ledger = [k \in Keys |-> [owner |-> Engine, data |-> <<>>]]
    /\ last = NoInstruction
    /\ params = NoParams
    /\ auth = NoAuth
    /\ token = NoToken
    /\ ft = NoFt

NextOptionalAccountInfo ==
    /\ iter.op # "none"
    /\ LET r == next_optional_account_info(iter.accounts, iter.pos)
       IN  iter' = Reading(iter.accounts, r.pos,
                           IF r.result.err = "none" THEN iter.yielded + 1
                           ELSE iter.yielded,
                           "next_optional_account_info", 0, iter.yielded, r.result)
    /\ UNCHANGED <<ledger, last, params, auth, token, ft>>

TryGetOptionalAccountInfo ==
    /\ iter.op # "none"
    /\ \E index \in 0..MaxSlots :
        iter' = Reading(iter.accounts, iter.pos, iter.yielded,
                        "try_get_optional_account_info", index, iter.yielded,
                        try_get_optional_account_info(iter.accounts, index))
    /\ UNCHANGED <<ledger, last, params, auth, token, ft>>

TryGetAccountInfo ==
    /\ iter.op # "none"
    /\ \E index \in 0..MaxSlots :
        iter' = Reading(iter.accounts, iter.pos, iter.yielded,
                        "try_get_account_info", index, iter.yielded,
                        try_get_account_info(iter.accounts, index))
    /\ UNCHANGED <<ledger, last, params, auth, token, ft>>

NextAccounts ==
    NextOptionalAccountInfo \/ TryGetOptionalAccountInfo \/ TryGetAccountInfo

SpecAccounts == InitAccounts /\ [][NextAccounts]_vars

(***************************************************************************)
(* Router claims                                                           *)
(***************************************************************************)
Routed == last # NoInstruction
LastAccounts == AccountInfos(last.before, last.keys)
Indexes == 1..Len(last.keys)
Decodable == last.input \in InstructionKinds

\* an engine-owned State Record whose lock state is Locked
IsLockedStateRecord(a) == IsStateRecord(a) /\ At(a.data, TOKEN_STATE_INDEX) = TokenState_Locked

\* an engine-owned buffer with the State Record tag, too short to hold a lock state
IsTruncatedStateRecord(a) ==
    /\ a.owner = Engine
    /\ Len(a.data) > DISCRIMINATOR_INDEX
    /\ Len(a.data) <= TOKEN_STATE_INDEX
    /\ At(a.data, DISCRIMINATOR_INDEX) = Key_TokenRecord

\* an engine-owned, non-empty buffer with the Asset Record tag
HasAssetRecordTag(a) ==
    /\ a.owner = Engine
    /\ Len(a.data) > DISCRIMINATOR_INDEX
    /\ At(a.data, DISCRIMINATOR_INDEX) = Key_MetadataV1

IsProgrammableAssetRecord(a) ==
    /\ HasAssetRecordTag(a)
    /\ Len(a.data) = METADATA_LEN
    /\ At(a.data, TOKEN_STANDARD_INDEX) = TokenStandard_ProgrammableNonFungible

IsUndecodableAssetRecord(a) ==
    /\ HasAssetRecordTag(a)
    /\ \/ Len(a.data) # METADATA_LEN
       \/ At(a.data, TOKEN_STANDARD_INDEX) \notin
              {TokenStandard_None, TokenStandard_NonFungible,
               TokenStandard_ProgrammableNonFungible}

LegacyCalls == Cardinality({i \in 1..Len(last.calls) : last.calls[i] = "process_legacy_instruction"})

\* C1 (as claimed): an instruction other than Unlock whose accounts hold a
\* Locked State Record fails with LockedToken and reaches no handler.
C1_LockedVetoesEveryInstruction ==
    (/\ Routed
     /\ Decodable
     /\ last.input # "Unlock"
     /\ \E i \in Indexes : IsLockedStateRecord(LastAccounts[i]))
    => (last.result = ErrLockedToken /\ last.calls = <<>>)

\* C2 (as claimed): while a State Record of the asset is Locked, no instruction
\* other than Unlock changes any state of the asset, whether or not the State
\* Record is among its accounts.
C2_LockedBlocksEveryMutation ==
    (/\ Routed
     /\ last.input # "Unlock"
     /\ \E k \in Keys : IsLockedStateRecord(last.before[k]))
    => ledger = last.before

\* C2 (amended): an instruction other than Unlock that is supplied the Locked
\* State Record reaches no handler and changes no state of the asset.
C2_SuppliedLockedRecordBlocks ==
    (/\ Routed
     /\ last.input # "Unlock"
     /\ \E i \in Indexes : IsLockedStateRecord(LastAccounts[i]))
    => (ledger = last.before /\ last.calls = <<>> /\ last.result # Ok)

\* C2 witness: an Update supplied the asset's Locked State Record and its Asset
\* Record was vetoed.
C2_Witness ==
    /\ Routed
    /\ last.input = "Update"
    /\ \E i \in Indexes : IsLockedStateRecord(LastAccounts[i])
    /\ \E i \in Indexes : IsAssetRecord(LastAccounts[i])
    /\ last.result = ErrLockedToken

NotModern == Decodable /\ last.input \notin ModernKinds

\* C3 (as claimed), for account lists that hold no State Record tag at all: a
\* legacy instruction is rejected with InstructionNotSupported when an account
\* is a programmable Asset Record, and is otherwise forwarded exactly once.
C3_ProgrammableOrForwarded ==
    (/\ Routed
     /\ NotModern
     /\ \A i \in Indexes : ~IsLockedStateRecord(LastAccounts[i])
     /\ \A i \in Indexes : ~IsTruncatedStateRecord(LastAccounts[i]))
    => IF \E i \in Indexes : IsProgrammableAssetRecord(LastAccounts[i])
       THEN last.result = ErrInstructionNotSupported /\ LegacyCalls = 0
       ELSE LegacyCalls = 1

\* the first account, in list order, that is a programmable or an undecodable
\* Asset Record (0 when there is none)
FirstFinding ==
    LET hits == {i \in Indexes : \/ IsProgrammableAssetRecord(LastAccounts[i])
                                 \/ IsUndecodableAssetRecord(LastAccounts[i])}
    IN  IF hits = {} THEN 0 ELSE CHOOSE i \in hits : \A j \in hits : i <= j

\* C3 (amended): for a legacy instruction and accounts without a Locked State
\* Record, the legacy processor is called exactly once when no account is a
\* programmable or an undecodable Asset Record, and never otherwise: the first
\* such account in list order decides between InstructionNotSupported and the
\* deserialization failure, and a truncated State Record aborts the instruction.
C3_LegacyForwarding ==
    (/\ Routed
     /\ NotModern
     /\ \A i \in Indexes : ~IsLockedStateRecord(LastAccounts[i]))
    => IF \E i \in Indexes : IsTruncatedStateRecord(LastAccounts[i])
       THEN last.result = Panic /\ LegacyCalls = 0
       ELSE IF FirstFinding = 0
       THEN LegacyCalls = 1 /\ Head(last.calls) = "process_legacy_instruction"
       ELSE IF IsProgrammableAssetRecord(LastAccounts[FirstFinding])
       THEN last.result = ErrInstructionNotSupported /\ LegacyCalls = 0
       ELSE last.result = ErrDeserialize /\ LegacyCalls = 0

\* C3 witness: a legacy instruction met a programmable Asset Record behind a
\* non-programmable one and was rejected.
C3_Witness ==
    /\ Routed
    /\ last.input \in LegacyKinds
    /\ Len(last.keys) = 2
    /\ IsAssetRecord(LastAccounts[1])
    /\ IsProgrammableAssetRecord(LastAccounts[2])
    /\ ~IsProgrammableAssetRecord(LastAccounts[1])
    /\ last.result = ErrInstructionNotSupported
    /\ last.calls = <<>>

(***************************************************************************)
(* Authorization claims                                                    *)
(***************************************************************************)
Validated == auth.pc \in {"returned", "mutated"}
HasConfig == params.programmable_config.some
RuleSetMatches ==
    /\ HasConfig
    /\ params.auth_rules_info.some
    /\ params.auth_rules_info.value = params.programmable_config.value.rule_set
OracleCalled == auth.calls # <<>>
CallersPayload == IF params.auth_data.some THEN params.auth_data.value ELSE <<>>
EngineKeys == {"Amount", "Target", "Authority"}

\* C4: an asset without a programmable configuration is always authorized, and
\* the oracle is not called for it.
C4_NoConfigGranted ==
    (Validated /\ ~HasConfig) => (auth.result = Ok /\ ~OracleCalled)

\* C4 witness: a Transfer without target, authority and rule set account, on an
\* asset without configuration, was granted.
C4_Witness ==
    /\ Validated
    /\ ~HasConfig
    /\ params.operation = "Transfer"
    /\ ~params.target_info.some
    /\ ~params.authority_info.some
    /\ ~params.auth_rules_info.some
    /\ params.auth_data.some
    /\ auth.result = Ok

\* C5: with a configuration, an absent or different rule set account fails the
\* validation with InvalidAuthorizationRules before the payload is built and
\* before any oracle call, whatever the operation.
C5_RuleSetCheckedFirst ==
    (Validated /\ HasConfig /\ ~RuleSetMatches)
    => (auth.result = ErrInvalidAuthorizationRules /\ ~auth.built /\ ~OracleCalled)

\* C5 witness: a Delegate with the other rule set account failed on the rule set.
C5_Witness ==
    /\ Validated
    /\ HasConfig
    /\ params.auth_rules_info.some
    /\ ~RuleSetMatches
    /\ params.operation = "Delegate"
    /\ auth.result = ErrInvalidAuthorizationRules

BothPresent == params.target_info.some /\ params.authority_info.some

\* C6 (as claimed): a Transfer with a matching rule set fails with
\* InvalidOperation without an oracle call when target or authority is absent,
\* and otherwise hands the oracle a payload of exactly Amount, Target, Authority.
C6_PayloadExactlyThree ==
    (Validated /\ RuleSetMatches /\ params.operation = "Transfer")
    => IF ~BothPresent
       THEN auth.result = ErrInvalidOperation /\ ~OracleCalled
       ELSE \A i \in 1..Len(auth.calls) :
               /\ DOMAIN auth.calls[i].payload = EngineKeys
               /\ auth.calls[i].payload["Amount"] = Number(params.amount)
               /\ auth.calls[i].payload["Target"] = Pubkey(params.target_info.value)
               /\ auth.calls[i].payload["Authority"] = Pubkey(params.authority_info.value)

\* C6 (amended): ... and otherwise hands the oracle a payload that maps Amount,
\* Target and Authority to the supplied amount and addresses, and holds besides
\* them the other keys of the caller's payload, unchanged.
C6_TransferPayload ==
    (Validated /\ RuleSetMatches /\ params.operation = "Transfer")
    => IF ~BothPresent
       THEN auth.result = ErrInvalidOperation /\ ~OracleCalled
       ELSE /\ OracleCalled <=> auth.builds
            /\ \A i \in 1..Len(auth.calls) :
                 LET payload == auth.calls[i].payload
                 IN  /\ DOMAIN payload = EngineKeys \cup DOMAIN CallersPayload
                     /\ payload["Amount"] = Number(params.amount)
                     /\ payload["Target"] = Pubkey(params.target_info.value)
                     /\ payload["Authority"] = Pubkey(params.authority_info.value)
                     /\ \A k \in DOMAIN CallersPayload \ EngineKeys :
                            payload[k] = CallersPayload[k]

\* C6 witness: the oracle was called for a Transfer whose caller had supplied
\* its own Amount and a Holder.
C6_Witness ==
    /\ Validated
    /\ RuleSetMatches
    /\ params.operation = "Transfer"
    /\ BothPresent
    /\ {"Amount", "Holder"} \subseteq DOMAIN CallersPayload
    /\ OracleCalled
    /\ auth.calls[1].payload["Amount"] = Number(params.amount)

\* C7: with a matching rule set, every operation other than Transfer is
\* rejected with InvalidOperation and the oracle is not called.
C7_OnlyTransferSupported ==
    (Validated /\ RuleSetMatches /\ params.operation # "Transfer")
    => (auth.result = ErrInvalidOperation /\ ~OracleCalled)

\* C7 witness: a Delegate with target, authority and the matching rule set was
\* rejected as an invalid operation.
C7_Witness ==
    /\ Validated
    /\ RuleSetMatches
    /\ params.operation = "Delegate"
    /\ BothPresent
    /\ auth.result = ErrInvalidOperation

OracleFailed == OracleCalled /\ auth.oracle \in OracleErrors

\* C8 (as claimed): when the call to the oracle fails, the validation fails
\* with InvalidAuthorizationRules, and the call is made at most once.
C8_OracleFailureIsInvalidRules ==
    (Validated /\ OracleFailed)
    => (auth.result = ErrInvalidAuthorizationRules /\ Len(auth.calls) <= 1)

\* C8 (amended): when the call to the oracle fails, the validation fails with
\* the error the call returned, unchanged; the call is made at most once.
C8_OracleFailurePropagates ==
    Validated
    => /\ Len(auth.calls) <= 1
       /\ OracleFailed => auth.result = auth.oracle

\* C8 witness: the oracle rejected a Transfer and the validation returned the
\* oracle's error.
C8_Witness ==
    /\ Validated
    /\ OracleCalled
    /\ auth.oracle = "Err(oracle: rule failed)"
    /\ auth.result = "Err(oracle: rule failed)"

\* C9: with a configuration, the validation succeeds exactly when the oracle
\* was called and returned success; the caller's writes follow only then.
C9_SuccessOnlyAfterOracle ==
    (Validated /\ HasConfig)
    => /\ auth.result = Ok <=> (Len(auth.calls) = 1 /\ auth.oracle = Ok)
       /\ auth.pc = "mutated" => (OracleCalled /\ auth.oracle = Ok)

\* C9 witness: the caller went on to its writes for an asset with a configuration.
C9_Witness ==
    /\ auth.pc = "mutated"
    /\ HasConfig
    /\ OracleCalled
    /\ auth.oracle = Ok

(***************************************************************************)
(* Freeze/thaw claims                                                      *)
(***************************************************************************)
AtBoundary == ft.pc = "idle"

\* C10: on a holder account that starts Held, after any sequence of
\* frozen_transfer instructions the account is Held at every instruction
\* boundary, and it is Spendable only inside an in-flight instruction, after
\* its thaw and before its freeze.
C10_HeldAtBoundaries ==
    ft.start = Held
    => /\ AtBoundary => token.source_state = Held
       /\ token.source_state = Spendable => ft.pc \in {"thawed", "transferred"}
       /\ ft.pc \in {"thawed", "transferred"} => token.source_state = Spendable

\* C10 witness: the second frozen_transfer in a row succeeded and left the
\* account Held, the tokens moved.
C10_Witness ==
    /\ ft.start = Held
    /\ AtBoundary
    /\ ft.completed = 2
    /\ ft.result = Ok
    /\ token.destination_balance = 2
    /\ token.source_state = Held

\* C10 witness of the in-flight state: the account is Spendable during the
\* transfer of the second instruction.
C10_InFlightSpendable ==
    /\ ft.start = Held
    /\ ft.pc = "thawed"
    /\ ft.completed = 1
    /\ token.source_state = Spendable

\* the instruction ft describes has started
Started == ft.kind # "none"
EditionMatches == ft.edition.some /\ ft.edition.value = EditionPda(Mint)

\* C11: frozen_transfer, freeze and thaw make no call to the token ledger
\* unless the edition account is supplied and is the derived one: without an
\* edition account frozen_transfer fails with MissingEditionAccount, with
\* another account each of the three fails the derivation check, and the
\* holder account's state and the balances are as before the instruction.
C11_EditionGuardsEveryCall ==
    (Started /\ ~EditionMatches)
    => /\ AtBoundary
       /\ ft.calls = <<>>
       /\ token = ft.snapshot
       /\ ft.result = IF ft.edition.some THEN ErrDerivedKeyInvalid
                      ELSE ErrMissingEditionAccount

\* C11 witness: a frozen_transfer of a transferable amount on a Held account,
\* given an edition account that is not the derived one, was refused.
C11_Witness ==
    /\ ft.kind = "frozen_transfer"
    /\ ft.edition.some
    /\ ~EditionMatches
    /\ ft.snapshot.source_state = Held
    /\ ft.amount > 0
    /\ ft.snapshot.source_balance >= ft.amount
    /\ ft.result = ErrDerivedKeyInvalid
    /\ ft.calls = <<>>

FailedCalls == {n \in 1..Len(ft.calls) : ~ft.calls[n].ok}

\* C12: an instruction in which a call to the token ledger failed ends in
\* failure, and after an instruction that ended in failure the holder account's
\* state and the balances are what they were before it; so it is after a thaw
\* followed by a failed transfer, and after a thaw and a transfer followed by a
\* failed freeze.
C12_FailureAppliesNothing ==
    (Started /\ AtBoundary)
    => /\ FailedCalls # {} => ft.result # Ok
       /\ ft.result # Ok => token = ft.snapshot

\* C12 witness: the thaw and the transfer of tokens succeeded, the freeze
\* failed, and the tokens are back in the Held source account.
C12_Witness ==
    /\ ft.kind = "frozen_transfer"
    /\ AtBoundary
    /\ Len(ft.calls) = 3
    /\ ft.calls[1].ok /\ ft.calls[2].ok /\ ~ft.calls[3].ok
    /\ ft.amount > 0
    /\ ft.result = ErrTokenProgram
    /\ token = ft.snapshot
    /\ token.source_state = Held

\* C12 witness of the other case: the thaw succeeded and the transfer failed.
C12_TransferFailed ==
    /\ ft.kind = "frozen_transfer"
    /\ AtBoundary
    /\ Len(ft.calls) = 2
    /\ ft.calls[1].ok /\ ~ft.calls[2].ok
    /\ ft.result = Panic
    /\ token = ft.snapshot

(***************************************************************************)
(* Classifier and Lock Guard claims                                        *)
(***************************************************************************)
\* the account lists over the ledger as it is
Supplied(keys) == AccountInfos(ledger, keys)
Positions(accounts) == 1..Len(accounts)
Boolean(r) == r \in {OkTrue, OkFalse}

\* C13: on the accounts of every routed instruction, where the Classifier
\* returns a boolean it returns true exactly when an account of the list is
\* owned by the engine, non-empty, tagged as an Asset Record and of token
\* standard ProgrammableNonFungible; and a legacy instruction that got to the
\* Classifier is rejected with InstructionNotSupported exactly then.
C13_ClassifierIffProgrammable ==
    Routed
    => LET r == has_programmable_metadata(Engine, LastAccounts)
           programmable == \E i \in Indexes : IsProgrammableAssetRecord(LastAccounts[i])
       IN  Boolean(r)
           => /\ r = OkTrue <=> programmable
              /\ (/\ NotModern
                  /\ ~is_locked(Engine, LastAccounts).panicked
                  /\ ~is_locked(Engine, LastAccounts).value)
                 => (last.result = ErrInstructionNotSupported <=> programmable)

\* C13 witness: a legacy instruction whose accounts are a programmable Asset
\* Record owned by another program and a State Record of the engine was
\* forwarded: the Classifier returned false.
C13_Witness ==
    /\ Routed
    /\ last.input \in LegacyKinds
    /\ Len(last.keys) = 2
    /\ LastAccounts[1].owner # Engine
    /\ LastAccounts[1].data =
           <<Key_MetadataV1, 0, TokenStandard_ProgrammableNonFungible>>
    /\ IsStateRecord(LastAccounts[2])
    /\ has_programmable_metadata(Engine, LastAccounts) = OkFalse
    /\ LegacyCalls = 1

\* the first undecodable Asset Record of a list (0 when there is none)
FirstUndecodable(accounts) ==
    LET hits == {i \in Positions(accounts) : IsUndecodableAssetRecord(accounts[i])}
    IN  IF hits = {} THEN 0 ELSE CHOOSE i \in hits : \A j \in hits : i <= j

\* C14 (as claimed): with an undecodable Asset Record among the accounts the
\* Classifier returns the deserialization failure, and a legacy instruction
\* fails without reaching the legacy processor.
C14_MalformedIsDeserializeError ==
    (Routed /\ FirstUndecodable(LastAccounts) # 0)
    => /\ has_programmable_metadata(Engine, LastAccounts) = ErrDeserialize
       /\ NotModern => (last.result # Ok /\ LegacyCalls = 0)

\* C14 (amended): with an undecodable Asset Record among the accounts the
\* Classifier never returns false: it returns true when a programmable Asset
\* Record comes before the first undecodable one and the deserialization failure
\* otherwise; a legacy instruction fails, reaches no handler and writes nothing.
C14_ClassifierFailsClosed ==
    (Routed /\ FirstUndecodable(LastAccounts) # 0)
    => /\ has_programmable_metadata(Engine, LastAccounts) =
            IF \E i \in 1..(FirstUndecodable(LastAccounts) - 1) :
                   IsProgrammableAssetRecord(LastAccounts[i])
            THEN OkTrue
            ELSE ErrDeserialize
       /\ NotModern => (last.result # Ok /\ last.calls = <<>> /\ ledger = last.before)

\* C14 witness: a legacy instruction whose accounts are a non-programmable Asset
\* Record and an undecodable one failed with the deserialization failure.
C14_Witness ==
    /\ Routed
    /\ last.input \in LegacyKinds
    /\ Len(last.keys) = 2
    /\ IsAssetRecord(LastAccounts[1])
    /\ ~IsProgrammableAssetRecord(LastAccounts[1])
    /\ IsUndecodableAssetRecord(LastAccounts[2])
    /\ last.result = ErrDeserialize
    /\ last.calls = <<>>

\* C15 (as claimed): on every account list the Lock Guard completes, and it
\* returns true exactly when an account of the list is owned by the engine,
\* non-empty, tagged as a State Record and Locked; it writes to no account.
C15_LockGuardCompletes ==
    \A keys \in AccountLists :
        LET accounts == Supplied(keys)
            r == is_locked(Engine, accounts)
        IN  /\ ~r.panicked
            /\ r.value <=> \E i \in Positions(accounts) : IsLockedStateRecord(accounts[i])

(***************************************************************************)
(* Router order claims                                                     *)
(***************************************************************************)
\* C16 (as claimed): input that does not decode fails with the decode error,
\* whatever the accounts; and a legacy instruction whose accounts hold a Locked
\* State Record and a programmable or an undecodable Asset Record fails with
\* LockedToken, before the Classifier or a handler runs.
C16_DecodeThenGuardThenClassifier ==
    Routed
    => /\ ~Decodable => (last.result = ErrDecode /\ last.calls = <<>>)
       /\ (/\ NotModern
           /\ \E i \in Indexes : IsLockedStateRecord(LastAccounts[i])
           /\ \E i \in Indexes : \/ IsProgrammableAssetRecord(LastAccounts[i])
                                 \/ IsUndecodableAssetRecord(LastAccounts[i]))
          => (last.result = ErrLockedToken /\ last.calls = <<>>)

\* what holds of the order of the checks: the decode error comes first, and a
\* Locked State Record that the Lock Guard reaches vetoes a legacy instruction
\* before the Classifier runs.
C16_OrderWhereGuardCompletes ==
    Routed
    => /\ ~Decodable => (last.result = ErrDecode /\ last.calls = <<>>)
       /\ (/\ NotModern
           /\ ~is_locked(Engine, LastAccounts).panicked
           /\ \E i \in Indexes : IsLockedStateRecord(LastAccounts[i]))
          => (last.result = ErrLockedToken /\ last.calls = <<>>)

\* C17: an instruction of the modern set that passes the Lock Guard reaches its
\* own handler, once, and no other; the router's result and writes are the
\* handler's, whatever Asset Records are among the accounts.
C17_ModernDispatchedDirectly ==
    (/\ Routed
     /\ last.input \in ModernKinds
     /\ ~is_locked(Engine, LastAccounts).panicked
     /\ (is_locked(Engine, LastAccounts).value => last.input = "Unlock"))
    => LET h == Handler(last.input, last.before, last.keys)
       IN  /\ last.calls = <<last.input>>
           /\ last.result = h.result
           /\ ledger = h.ledger

\* C17 witness: a Mint whose accounts are a programmable Asset Record and an
\* undecodable one reached the mint handler.
C17_Witness ==
    /\ Routed
    /\ last.input = "Mint"
    /\ Len(last.keys) = 2
    /\ IsProgrammableAssetRecord(LastAccounts[1])
    /\ IsUndecodableAssetRecord(LastAccounts[2])
    /\ last.calls = <<"Mint">>
    /\ last.result = Ok

(***************************************************************************)
(* Transitioner order and payload claims                                   *)
(***************************************************************************)
CallOrder == <<"thaw", "transfer", "freeze">>

\* C18: the calls of one frozen_transfer to the token ledger are a prefix of
\* thaw, transfer, freeze, each made only after the one before it succeeded,
\* all on the source holder account, the thaw and the freeze with the same mint
\* and the edition as signer; it returns success only after the freeze succeeded.
C18_ThawTransferFreeze ==
    ft.kind = "frozen_transfer"
    => /\ Len(ft.calls) <= Len(CallOrder)
       /\ \A n \in 1..Len(ft.calls) :
            /\ ft.calls[n].op = CallOrder[n]
            /\ ft.calls[n].account = Source
            /\ n > 1 => ft.calls[n - 1].ok
            /\ ft.calls[n].op \in {"thaw", "freeze"}
               => (ft.calls[n].mint = Mint /\ ft.calls[n].signer = ft.edition.value)
       /\ (AtBoundary /\ ft.result = Ok)
          => (Len(ft.calls) = Len(CallOrder) /\ ft.calls[Len(CallOrder)].ok)
       /\ ft.pc = "thawed" => Len(ft.calls) = 1
       /\ ft.pc = "transferred" => Len(ft.calls) = 2

\* C18 witness: a frozen_transfer of tokens made its three calls and succeeded.
C18_Witness ==
    /\ ft.kind = "frozen_transfer"
    /\ AtBoundary
    /\ ft.result = Ok
    /\ ft.amount > 0
    /\ Len(ft.calls) = 3
    /\ token.destination_balance = ft.snapshot.destination_balance + ft.amount

\* the payload the engine's facts give, over the caller's
Overridden(callers) ==
    [k \in DOMAIN callers \cup EngineKeys |->
        CASE k = "Amount" -> Number(params.amount)
          [] k = "Target" -> Pubkey(params.target_info.value)
          [] k = "Authority" -> Pubkey(params.authority_info.value)
          [] OTHER -> callers[k]]

\* C19: the Payload a Transfer validation sends to the oracle is the caller's
\* payload (the empty one when there is none) with Amount, Target and Authority
\* replaced by the instruction's amount and the addresses of the target and
\* authority accounts, and every other key of the caller as it was.
C19_EngineFactsOverride ==
    (Validated /\ OracleCalled)
    => /\ params.operation = "Transfer"
       /\ auth.calls[1].payload = Overridden(CallersPayload)
       /\ ~params.auth_data.some => DOMAIN auth.calls[1].payload = EngineKeys

\* C19 witness: the caller's payload held its own Amount, Target and Authority
\* and a Holder; the oracle was sent the engine's three facts and the Holder.
C19_Witness ==
    /\ Validated
    /\ OracleCalled
    /\ params.auth_data.some
    /\ DOMAIN params.auth_data.value = EngineKeys \cup {"Holder"}
    /\ auth.calls[1].payload.Amount = Number(params.amount)
    /\ auth.calls[1].payload.Amount # params.auth_data.value.Amount
    /\ auth.calls[1].payload.Target # params.auth_data.value.Target
    /\ auth.calls[1].payload.Holder = params.auth_data.value.Holder

\* the one call of an instruction was refused by the token ledger
RefusedByLedger(op) ==
    /\ AtBoundary
    /\ Len(ft.calls) = 1
    /\ ft.calls[1].op = op
    /\ ~ft.calls[1].ok
    /\ ft.result = ErrTokenProgram
    /\ token = ft.snapshot

\* C20: with the derived edition account, a freeze of a Held account and a thaw
\* of a Spendable account are sent to the token ledger, whose refusal is the
\* instruction's failure, and the account is as it was; a frozen_transfer on an
\* account that is Spendable at its start fails so at the thaw, without a transfer.
C20_LedgerRejectsRepeatedTransition ==
    (Started /\ EditionMatches)
    => /\ (ft.kind = "freeze" /\ ft.snapshot.source_state = Held)
          => RefusedByLedger("freeze")
       /\ (ft.kind = "thaw" /\ ft.snapshot.source_state = Spendable)
          => RefusedByLedger("thaw")
       /\ (ft.kind = "frozen_transfer" /\ ft.snapshot.source_state = Spendable)
          => RefusedByLedger("thaw")

\* C20 witness: an account that started Held was thawed on its own, and the
\* frozen_transfer of a transferable amount that followed failed at its thaw.
C20_Witness ==
    /\ ft.start = Held
    /\ ft.completed = 2
    /\ ft.kind = "frozen_transfer"
    /\ EditionMatches
    /\ ft.snapshot.source_state = Spendable
    /\ ft.amount > 0
    /\ ft.snapshot.source_balance >= ft.amount
    /\ RefusedByLedger("thaw")

(***************************************************************************)
(* Unlock and lock state claims                                            *)
(***************************************************************************)
\* C21 (as claimed): a decodable Unlock instruction reaches the unlock handler
\* on every account list, with or without a Locked State Record.
C21_UnlockAlwaysDispatched ==
    (Routed /\ last.input = "Unlock") => last.calls = <<"Unlock">>

\* what holds of Unlock: it reaches the unlock handler on every account list
\* on which the Lock Guard completes, Locked State Record or not.
C21_UnlockWhereGuardCompletes ==
    (Routed /\ last.input = "Unlock" /\ ~is_locked(Engine, LastAccounts).panicked)
    => last.calls = <<"Unlock">>

\* the State Records that were Locked before the instruction and are not now
Released ==
    {k \in DOMAIN last.before :
        IsLockedStateRecord(last.before[k]) /\ ~IsLockedStateRecord(ledger[k])}

\* C23 (as claimed): a State Record goes from Locked to Unlocked only in an
\* Unlock instruction; every other instruction that is supplied a Locked State
\* Record fails with LockedToken before a handler runs and leaves it Locked.
C23_OnlyUnlockReleases ==
    Routed
    => /\ Released # {} => last.input = "Unlock"
       /\ (/\ Decodable
           /\ last.input # "Unlock"
           /\ \E i \in Indexes : IsLockedStateRecord(LastAccounts[i]))
          => (last.result = ErrLockedToken /\ last.calls = <<>> /\ Released = {})

\* what holds of the lock state: only an Unlock instruction releases a State
\* Record, and no other instruction that is supplied a Locked State Record
\* reaches a handler or writes.
C23_NoReleaseWithoutUnlock ==
    Routed
    => /\ Released # {} => last.input = "Unlock"
       /\ (/\ last.input # "Unlock"
           /\ \E i \in Indexes : IsLockedStateRecord(LastAccounts[i]))
          => (last.result # Ok /\ last.calls = <<>> /\ ledger = last.before)

(***************************************************************************)
(* Order of the accounts                                                   *)
(***************************************************************************)
\* the orderings of an account list
Reorderings(keys) ==
    {[i \in DOMAIN keys |-> keys[f[i]]] :
        f \in {g \in [DOMAIN keys -> DOMAIN keys] :
                  \A i, j \in DOMAIN keys : g[i] = g[j] => i = j}}

\* the routed instruction, had its accounts been supplied in the order keys
Forwarded(keys) ==
    LET r == process_instruction(Engine, keys, last.input, last.before)
    IN  \E n \in 1..Len(r.calls) : r.calls[n] = "process_legacy_instruction"

\* C24 (as claimed): under every ordering of the accounts is_locked returns what
\* it returns under the one supplied, and a legacy instruction is forwarded
\* under one ordering exactly when it is under every other: exactly when no
\* account is a programmable or an undecodable Asset Record.
C24_OrderOfAccountsIrrelevant ==
    (Routed /\ Decodable)
    => \A keys \in Reorderings(last.keys) :
         /\ is_locked(Engine, AccountInfos(last.before, keys)) =
                is_locked(Engine, LastAccounts)
         /\ NotModern
            => /\ Forwarded(keys) <=> Forwarded(last.keys)
               /\ Forwarded(keys) <=> FirstFinding = 0

\* what holds of the order: whether a legacy instruction is forwarded does not
\* depend on it, and where is_locked completes under two orderings it returns
\* the same value under both.
C24_ForwardingOrderIndependent ==
    (Routed /\ Decodable)
    => \A keys \in Reorderings(last.keys) :
         /\ (/\ ~is_locked(Engine, AccountInfos(last.before, keys)).panicked
             /\ ~is_locked(Engine, LastAccounts).panicked)
            => is_locked(Engine, AccountInfos(last.before, keys)) =
                   is_locked(Engine, LastAccounts)
         /\ NotModern => (Forwarded(keys) <=> Forwarded(last.keys))

(***************************************************************************)
(* Optional account claims                                                 *)
(***************************************************************************)
\* the account at position n of the slice (from 1), or None when it is not set
Slot(n) ==
    IF iter.accounts[n].key = Engine THEN None ELSE Some(iter.accounts[n])

\* C22: a call of next_optional_account_info after k successful ones reads
\* account k + 1 of the slice, whichever of the first k were not set: it returns
\* None for the engine's own id and the account otherwise, and fails with
\* NotEnoughAccountKeys, consuming nothing, when there is no such account;
\* try_get_optional_account_info at index i does the same for account i + 1, and
\* try_get_account_info fails with NotEnoughAccountKeys also when it is not set.
C22_OptionalAccountsArePositional ==
    /\ iter.op \notin {"none", "start"} => iter.pos = iter.yielded
    /\ iter.op = "next_optional_account_info"
       => IF iter.from < Len(iter.accounts)
          THEN /\ iter.result = Found(Slot(iter.from + 1))
               /\ iter.yielded = iter.from + 1
          ELSE /\ iter.result = Failed(ErrNotEnoughAccountKeys)
               /\ iter.yielded = iter.from
    /\ iter.op = "try_get_optional_account_info"
       => /\ iter.result = IF iter.index < Len(iter.accounts)
                           THEN Found(Slot(iter.index + 1))
                           ELSE Failed(ErrNotEnoughAccountKeys)
          /\ iter.yielded = iter.from
    /\ iter.op = "try_get_account_info"
       => /\ iter.result = IF /\ iter.index < Len(iter.accounts)
                              /\ iter.accounts[iter.index + 1].key # Engine
                           THEN Found(iter.accounts[iter.index + 1])
                           ELSE Failed(ErrNotEnoughAccountKeys)
          /\ iter.yielded = iter.from

\* C22 witness: the third call of next_optional_account_info returned the third
\* account of the slice, after the first was found not set and the second set.
C22_Witness ==
    /\ iter.op = "next_optional_account_info"
    /\ Len(iter.accounts) = 3
    /\ iter.accounts[1].key = Engine
    /\ iter.accounts[2].key # Engine
    /\ iter.accounts[3].key \notin {Engine, iter.accounts[2].key}
    /\ iter.from = 2
    /\ iter.yielded = 3
    /\ iter.result = Found(Some(iter.accounts[3]))

=============================================================================
